---- MODULE Spec2Model ----
(***************************************************************************)
(* Model of watertap/tools/parameter_sweep.py: the distributed parameter   *)
(* sweep.  Every rank of the MPI communicator runs parameter_sweep():      *)
(* build the combination array, take its own block, evaluate the local     *)
(* cases, aggregate the result matrix and save.                            *)
(*                                                                         *)
(* Floating point values are modelled exactly: a sampled parameter value   *)
(* is the pair <<numerator, denominator>>, an extracted output is a        *)
(* non-negative integer that encodes (case, output column, solve number),  *)
(* and np.nan is the integer NaN.                                          *)
(***************************************************************************)
EXTENDS Integers, Sequences, FiniteSets, TLC

(* ---- bounds of the model ---- *)
MaxProcs   == 3     \* largest communicator size
MaxSamples == 5     \* largest num_samples of one LinearSample
MaxParams  == 2     \* largest number of sweep parameters
MaxRows    == 3     \* largest combination array that is evaluated
NumOutputs == 2     \* len(outputs)

(* np.nan, stored in a result row of a failed case *)
NaN == -1

None == "None"

VARIABLES
    sweep_params,               \* d: sequence of LinearSample objects
    num_procs,                  \* comm.Get_size()
    optimize_function,          \* the results the evaluate hook can return
    reinitialize_function,      \* None or "reinitialize"
    reinitialize_before_sweep,  \* BOOLEAN
    csv_results_file,           \* [given, head, tail]; given = FALSE for None
    debugging_data_dir,         \* None or a directory name
    interpolate_nan_outputs,    \* BOOLEAN
    pc,                         \* rank -> position in parameter_sweep
    global_values,              \* rank -> its copy of the combination array
    local_values,               \* rank -> its block of the combination array
    k,                          \* rank -> number of local cases finished
    local_results,              \* rank -> local result matrix
    local_solve_status_list,    \* rank -> status strings, one per finished case
    calls,                      \* rank -> per case, the hooks invoked in order
    attempts,                   \* rank -> per case, the results evaluate returned
    fail_counter,               \* rank -> local cases whose status is not "optimal"
    global_results,             \* rank -> aggregated result matrix
    bcast_values,               \* Bcast of the combination array (root's buffer)
    send_counts,                \* Gather of np.size(local_results) on root
    gatherv_rows,               \* Gatherv contributions that reached root
    bcast_results,              \* Bcast of the result matrix (root's buffer)
    barrier,                    \* ranks that entered comm.Barrier()
    dirs,                       \* directories that exist
    files,                      \* file writes so far
    model,                      \* the components of the pyomo model
    num_samples,                \* the num_samples argument; given = FALSE for None
    local_output_dict,          \* rank -> its output skeleton
    global_output_dict,         \* rank -> what _create_global_output returns
    sample_split_arr,           \* allgather of the local case counts
    gatherv_output,             \* leaf and status buffers sent to rank 0
    collectives,                \* rank -> the collectives it has invoked, in order
    termination_condition,      \* argument of the status translation
    translated,                 \* what the status translation returned
    global_results_clean,       \* what _interp_nan_values returned
    h5_file,                    \* the groups and datasets of the h5 file
    h5_output_dict              \* what _read_output_h5 returned

vars == <<sweep_params, num_procs, optimize_function, reinitialize_function,
          reinitialize_before_sweep, csv_results_file, debugging_data_dir,
          interpolate_nan_outputs, pc, global_values, local_values, k,
          local_results, local_solve_status_list, calls, attempts,
          fail_counter, global_results, bcast_values, send_counts, gatherv_rows,
          bcast_results, barrier, dirs, files, model, num_samples, local_output_dict,
          global_output_dict, sample_split_arr, gatherv_output, collectives,
          termination_condition, translated, global_results_clean, h5_file,
          h5_output_dict>>

configVars == <<sweep_params, num_procs, optimize_function,
                reinitialize_function, reinitialize_before_sweep,
                csv_results_file, debugging_data_dir, interpolate_nan_outputs,
                model, num_samples>>

loopVars == <<k, local_results, local_solve_status_list, calls, attempts,
              fail_counter>>

mpiVars == <<bcast_values, send_counts, gatherv_rows, bcast_results, barrier>>

fsVars == <<dirs, files>>

outVars == <<local_output_dict, global_output_dict, sample_split_arr, gatherv_output>>

toolVars == <<termination_condition, translated, global_results_clean, h5_file,
              h5_output_dict>>

Ranks == 0 .. (num_procs - 1)

(* ---------------------------------------------------------------------- *)
(* Sequence helpers                                                        *)
(* ---------------------------------------------------------------------- *)
RECURSIVE Prod(_)
Prod(s) == IF s = <<>> THEN 1 ELSE Head(s) * Prod(Tail(s))

RECURSIVE Sum(_)
Sum(s) == IF s = <<>> THEN 0 ELSE Head(s) + Sum(Tail(s))

\* np.cumsum: running totals of a sequence
CumSum(s) == [i \in 1 .. Len(s) |-> Sum(SubSeq(s, 1, i))]

RECURSIVE Flatten(_)
\* concatenation of a sequence of sequences
Flatten(ss) == IF ss = <<>> THEN <<>> ELSE Head(ss) \o Flatten(Tail(ss))

(* ---------------------------------------------------------------------- *)
(* LinearSample.sample: np.linspace(lower_limit, upper_limit, num_samples) *)
(* Value i (0-based) is lower + i*(upper-lower)/(n-1); a single sample is  *)
(* the lower limit.  Values are <<numerator, denominator>>.                *)
(* ---------------------------------------------------------------------- *)
LinearSample(v) ==
    LET n   == v.num_samples
        den == IF n > 1 THEN n - 1 ELSE 1
    IN  [i \in 1 .. n |->
            <<v.lower_limit * den + (i - 1) * (v.upper_limit - v.lower_limit), den>>]

(* ---------------------------------------------------------------------- *)
(* _build_combinations, SamplingType.FIXED, rank 0                         *)
(* ---------------------------------------------------------------------- *)
\* variant of Unravel for meshgrid's default indexing="xy", which swaps the
\* first two axes
UnravelXY(j, counts, p) ==
    LET swapped == IF Len(counts) >= 2
                   THEN <<counts[2], counts[1]>> \o SubSeq(counts, 3, Len(counts))
                   ELSE counts
        q       == IF Len(counts) >= 2 /\ p \in {1, 2} THEN 3 - p ELSE p
    IN  (j \div Prod(SubSeq(swapped, q + 1, Len(swapped)))) % swapped[q]

\* index (0-based) along axis p of flat position j (0-based) of an array of
\* shape counts, C order: the last axis varies fastest
Unravel(j, counts, p) ==
    (j \div Prod(SubSeq(counts, p + 1, Len(counts)))) % counts[p]

\* np.array(np.meshgrid(*param_values, indexing="ij")).reshape(num_var_params, -1)
MeshgridReshape(param_values) ==
    LET counts == [p \in 1 .. Len(param_values) |-> Len(param_values[p])]
    IN  [p \in 1 .. Len(param_values) |->
            [j \in 1 .. Prod(counts) |->
                param_values[p][Unravel(j - 1, counts, p) + 1]]]

\* .T of a two-dimensional array of num_var_params rows
Transpose(a) ==
    LET ncols == IF a = <<>> THEN 0 ELSE Len(a[1])
    IN  [j \in 1 .. ncols |-> [p \in 1 .. Len(a) |-> a[p][j]]]

BuildCombinations(d) ==
    LET param_values == [p \in 1 .. Len(d) |-> LinearSample(d[p])]
    IN  Transpose(MeshgridReshape(param_values))

\* the row count a rank other than 0 computes for its receive buffer
ExpectedRows(d) == Prod([p \in 1 .. Len(d) |-> d[p].num_samples])

(* ---------------------------------------------------------------------- *)
(* _divide_combinations: np.array_split(global_combo_array, num_procs)     *)
(* ---------------------------------------------------------------------- *)
\* variant of SectionSizes that gives the whole remainder to the last section
SectionSizesFloor(n, nprocs) ==
    LET Neach  == n \div nprocs
        extras == n % nprocs
    IN  <<0>> \o [i \in 1 .. nprocs |-> IF i = nprocs THEN Neach + extras ELSE Neach]

\* section sizes of np.array_split: [0] + extras*[Neach+1] + (W-extras)*[Neach]
SectionSizes(n, nprocs) ==
    LET Neach  == n \div nprocs
        extras == n % nprocs
    IN  <<0>> \o [i \in 1 .. nprocs |-> IF i <= extras THEN Neach + 1 ELSE Neach]

\* variant of DivideCombinations that starts each block one row late
DropBoundary(global_combo_array, rank, nprocs) ==
    LET div_points == CumSum(SectionSizes(Len(global_combo_array), nprocs))
    IN  SubSeq(global_combo_array, div_points[rank + 1] + 2, div_points[rank + 2])

\* divided_combo_array[rank]
DivideCombinations(global_combo_array, rank, nprocs) ==
    LET div_points == CumSum(SectionSizes(Len(global_combo_array), nprocs))
    IN  SubSeq(global_combo_array, div_points[rank + 1] + 1, div_points[rank + 2])

(* ---------------------------------------------------------------------- *)
(* Inputs of parameter_sweep                                               *)
(* ---------------------------------------------------------------------- *)
SampleSpecs ==
    {[lower_limit |-> 0, upper_limit |-> 10, num_samples |-> n] : n \in 0 .. MaxSamples}

ParamSets == UNION {[1 .. P -> SampleSpecs] : P \in 1 .. MaxParams}

\* the sweeps that are evaluated: one swept parameter, at most MaxRows cases
SmallParamSets == {d \in ParamSets : Len(d) = 1 /\ ExpectedRows(d) <= MaxRows}

NoFile == [given |-> FALSE, head |-> "", tail |-> <<>>]

NotPosted == [posted |-> FALSE, data |-> <<>>]

\* num_samples = None
NoSamples == [given |-> FALSE, n |-> 0]

\* no output skeleton yet
NoDict == [sweep_params |-> <<>>, outputs |-> <<>>, solve_status |-> <<>>]

\* the functions that are also called on their own have not been called
NoTools ==
    /\ termination_condition = [type |-> "none", val |-> 0]
    /\ translated = <<>>
    /\ global_results_clean = <<>>
    /\ h5_file = NoDict
    /\ h5_output_dict = NoDict

\* the variables of the ranks when parameter_sweep is entered
InitRanks(d, nprocs) ==
    /\ sweep_params = d
    /\ num_procs = nprocs
    /\ pc = [r \in 0 .. (nprocs - 1) |-> "build"]
    /\ global_values = [r \in 0 .. (nprocs - 1) |-> <<>>]
    /\ local_values = [r \in 0 .. (nprocs - 1) |-> <<>>]
    /\ k = [r \in 0 .. (nprocs - 1) |-> 0]
    /\ local_results = [r \in 0 .. (nprocs - 1) |-> <<>>]
    /\ local_solve_status_list = [r \in 0 .. (nprocs - 1) |-> <<>>]
    /\ calls = [r \in 0 .. (nprocs - 1) |-> <<>>]
    /\ attempts = [r \in 0 .. (nprocs - 1) |-> <<>>]
    /\ fail_counter = [r \in 0 .. (nprocs - 1) |-> 0]
    /\ global_results = [r \in 0 .. (nprocs - 1) |-> <<>>]
    /\ bcast_values = NotPosted
    /\ send_counts = [r \in 0 .. (nprocs - 1) |-> -1]
    /\ gatherv_rows = [r \in 0 .. (nprocs - 1) |-> <<>>]
    /\ bcast_results = NotPosted
    /\ barrier = {}
    /\ dirs = {""}
    /\ files = {}
    /\ local_output_dict = [r \in 0 .. (nprocs - 1) |-> NoDict]
    /\ global_output_dict = [r \in 0 .. (nprocs - 1) |-> NoDict]
    /\ sample_split_arr = [r \in 0 .. (nprocs - 1) |-> -1]
    /\ gatherv_output = [r \in 0 .. (nprocs - 1) |-> NotPosted]
    /\ collectives = [r \in 0 .. (nprocs - 1) |-> <<>>]

\* the state of every rank when parameter_sweep is entered
InitRun(d, nprocs) == InitRanks(d, nprocs) /\ NoTools

(* ---------------------------------------------------------------------- *)
(* parameter_sweep, line 878: _build_combinations and its Bcast            *)
(* ---------------------------------------------------------------------- *)
Build(r) ==
    /\ pc[r] = "build"
    /\ IF r = 0
       THEN /\ global_values' = [global_values EXCEPT ![r] = BuildCombinations(sweep_params)]
            /\ bcast_values' = IF num_procs > 1
                               THEN [posted |-> TRUE, data |-> BuildCombinations(sweep_params)]
                               ELSE bcast_values
       ELSE \* np.zeros((nx, num_var_params)) filled by comm.Bcast from rank 0
            /\ bcast_values.posted
            /\ Len(bcast_values.data) = ExpectedRows(sweep_params)
            /\ global_values' = [global_values EXCEPT ![r] = bcast_values.data]
            /\ UNCHANGED bcast_values
    /\ pc' = [pc EXCEPT ![r] = "divide"]
    /\ collectives' = [collectives EXCEPT
            ![r] = @ \o (IF num_procs > 1
                          THEN <<<<"Bcast", "global_combo_array">>>> ELSE <<>>)]
    /\ UNCHANGED <<configVars, toolVars, outVars, local_values, loopVars, global_results, send_counts,
                   gatherv_rows, bcast_results, barrier, fsVars>>

(* ---------------------------------------------------------------------- *)
(* parameter_sweep, line 881: _divide_combinations                         *)
(* ---------------------------------------------------------------------- *)
Divide(r) ==
    /\ pc[r] = "divide"
    /\ local_values' = [local_values EXCEPT
                            ![r] = DivideCombinations(global_values[r], r, num_procs)]
    /\ pc' = [pc EXCEPT ![r] = "sweep"]
    /\ UNCHANGED <<configVars, toolVars, outVars, collectives, global_values, loopVars, global_results, mpiVars, fsVars>>

(* ---------------------------------------------------------------------- *)
(* _do_param_sweep                                                         *)
(* ---------------------------------------------------------------------- *)
\* the results an evaluate hook can return: results.solver.status and
\* results.solver.termination_condition
AllResults ==
    { [status |-> "ok",      termination_condition |-> "optimal"],
      [status |-> "ok",      termination_condition |-> "locallyOptimal"],
      [status |-> "warning", termination_condition |-> "infeasible"],
      [status |-> "warning", termination_condition |-> "optimal"] }

\* pyo.check_optimal_termination(results)
CheckOptimalTermination(results) ==
    /\ results.status = "ok"
    /\ results.termination_condition \in {"optimal", "locallyOptimal", "globallyOptimal"}

\* a combination row as one integer (numerators of its values, base 100)
RECURSIVE Encode(_)
Encode(values) ==
    IF values = <<>> THEN 0
    ELSE Encode(SubSeq(values, 1, Len(values) - 1)) * 100 + values[Len(values)][1]

\* [pyo.value(outcome) for outcome in outputs.values()] after solve number
\* solve_no of the model with the parameters set to values
ExtractOutputs(values, solve_no) ==
    [j \in 1 .. NumOutputs |-> (Encode(values) * 10 + j) * 10 + solve_no]

(* ---------------------------------------------------------------------- *)
(* The pyomo model and the output skeleton                                 *)
(* A float of the skeleton is the pair <<numerator, denominator>>.         *)
(* ---------------------------------------------------------------------- *)
Float(n) == <<n, 1>>

\* np.nan in a value array of the skeleton
np_nan == <<0, 0>>

\* np.isfinite
IsFinite(x) == x[2] # 0

\* a bound of a component; none = TRUE when the attribute is None
Bound(n) == [none |-> FALSE, val |-> n]

NoBound == [none |-> TRUE, val |-> 0]

\* sweep_params[key].pyomo_object.name of the p-th sweep parameter
ParamNames == <<"fs.p1", "fs.p2", "fs.p3", "fs.p4">>

\* a flowsheet whose variables all appear in activated equalities. A
\* component is listed with what the skeleton reads from it: hasattr 'lb',
\* 'ub' and 'get_units', lb, ub, get_units() (None or the unit's name), the
\* index of the sweep parameter that writes it (0 for none), and whether
\* variables_in_activated_equalities_set finds it
Flowsheet ==
    << [name |-> "fs.p1", ctype |-> "Var", has_lb |-> TRUE, has_ub |-> TRUE,
        lb |-> Bound(0), ub |-> Bound(10), has_units |-> TRUE, units |-> "m",
        swept |-> 1, in_activated_equality |-> TRUE],
       [name |-> "fs.y", ctype |-> "Var", has_lb |-> TRUE, has_ub |-> TRUE,
        lb |-> Bound(2), ub |-> NoBound, has_units |-> TRUE, units |-> None,
        swept |-> 0, in_activated_equality |-> TRUE],
       [name |-> "fs.e", ctype |-> "Expression", has_lb |-> FALSE, has_ub |-> FALSE,
        lb |-> NoBound, ub |-> NoBound, has_units |-> FALSE, units |-> None,
        swept |-> 0, in_activated_equality |-> FALSE],
       [name |-> "obj", ctype |-> "Objective", has_lb |-> FALSE, has_ub |-> FALSE,
        lb |-> NoBound, ub |-> NoBound, has_units |-> FALSE, units |-> None,
        swept |-> 0, in_activated_equality |-> FALSE] >>

\* the same flowsheet with one more variable, which appears in no activated
\* equality constraint (only in an inequality, say)
FlowsheetWithFreeVar ==
    Append(Flowsheet,
       [name |-> "fs.z", ctype |-> "Var", has_lb |-> TRUE, has_ub |-> TRUE,
        lb |-> NoBound, ub |-> Bound(5), has_units |-> TRUE, units |-> "kg",
        swept |-> 0, in_activated_equality |-> FALSE])

Flowsheets == {Flowsheet, FlowsheetWithFreeVar}

\* model.component_data_objects((pyo.Var, pyo.Expression, pyo.Objective), active=True)
ComponentDataObjects(m) ==
    {c \in 1 .. Len(m) : m[c].ctype \in {"Var", "Expression", "Objective"}}

\* variables_in_activated_equalities_set(model.fs)
VariablesInActivatedEqualitiesSet(m) ==
    {c \in 1 .. Len(m) : m[c].ctype = "Var" /\ m[c].in_activated_equality}

\* expressions_set(model.fs)
ExpressionsSet(m) == {c \in 1 .. Len(m) : m[c].ctype = "Expression"}

\* total_objectives_set(model)
TotalObjectivesSet(m) == {c \in 1 .. Len(m) : m[c].ctype = "Objective"}

\* the component of m with the given name
ComponentNamed(m, name) == m[CHOOSE c \in 1 .. Len(m) : m[c].name = name]

\* component.value or pyo.value(component) after solve number solve_no of the
\* model with the parameters set to values; a swept variable holds the value
\* that _update_model_values fixed it to
ComponentValue(m, c, values, solve_no) ==
    IF m[c].swept > 0 THEN values[m[c].swept]
    ELSE Float((Encode(values) * 10 + c) * 10 + solve_no)

\* lines 378-394: the leaf of one component
CreateComponentOutputSkeleton(component, nsamples) ==
    LET keys == {"value"}
                \cup (IF component.has_lb THEN {"lower bound"} ELSE {})
                \cup (IF component.has_ub THEN {"upper bound"} ELSE {})
                \cup (IF component.has_units THEN {"units"} ELSE {})
    IN  [key \in keys |->
            CASE key = "value"       -> [i \in 1 .. nsamples |-> Float(0)]
              [] key = "lower bound" -> component.lb
              [] key = "upper bound" -> component.lb
              [] key = "units"       -> IF component.units = None
                                        THEN "non-dimensional" ELSE component.units]

\* lines 345-374; "solve_status" is attached by line 697
CreateLocalOutputSkeleton(m, d, nsamples) ==
    [sweep_params |->
        [name \in {ParamNames[p] : p \in 1 .. Len(d)} |->
            CreateComponentOutputSkeleton(ComponentNamed(m, name), nsamples)],
     outputs |->
        [name \in {m[c].name : c \in ComponentDataObjects(m)} |->
            CreateComponentOutputSkeleton(ComponentNamed(m, name), nsamples)],
     solve_status |-> <<>>]

\* lines 408-438: what output leaf c receives at a case of the given status,
\* when it receives anything
OutputUpdate(m, d, c, values, solve_no, solver_termination_condition) ==
    IF solver_termination_condition = "optimal"
    THEN ComponentValue(m, c, values, solve_no)
    ELSE IF m[c].ctype = "Var" /\ m[c].name \in {ParamNames[p] : p \in 1 .. Len(d)}
         THEN ComponentValue(m, c, values, solve_no)
         ELSE np_nan

\* lines 398-440
UpdateLocalOutputDict(m, d, case_number, values, solve_no, solver_termination_condition, output_dict) ==
    LET updated == VariablesInActivatedEqualitiesSet(m) \cup ExpressionsSet(m)
                   \cup TotalObjectivesSet(m)
        index(name) == CHOOSE c \in 1 .. Len(m) : m[c].name = name
        param(name) == CHOOSE p \in 1 .. Len(d) : ParamNames[p] = name
    IN  [sweep_params |->
            [name \in DOMAIN output_dict.sweep_params |->
                [output_dict.sweep_params[name] EXCEPT
                    !["value"][case_number] = values[param(name)]]],
         outputs |->
            [name \in DOMAIN output_dict.outputs |->
                IF index(name) \in updated
                THEN [output_dict.outputs[name] EXCEPT
                        !["value"][case_number] =
                            OutputUpdate(m, d, index(name), values, solve_no,
                                         solver_termination_condition)]
                ELSE output_dict.outputs[name]],
         solve_status |-> output_dict.solve_status]

\* local_results[k, :] = np.nan
NaNRow == [j \in 1 .. NumOutputs |-> NaN]

\* np.zeros((local_num_cases, len(outputs)))
Zeros(nrows, ncols) == [i \in 1 .. nrows |-> [j \in 1 .. ncols |-> 0]]

\* variant of Retry that ignores previous_run_failed
RetryAlways(before, reinit, results) == before = FALSE /\ reinit # None

\* variant of Retry that ignores reinitialize_before_sweep
RetryEvenIfBefore(before, reinit, results) ==
    ~CheckOptimalTermination(results) /\ reinit # None

\* line 669: the condition of the retry
Retry(before, reinit, results) ==
    before = FALSE /\ ~CheckOptimalTermination(results) /\ reinit # None

\* variant of CaseRow that leaves the zeros of the allocation in a failed row
CaseRowNoSentinel(values, before, reinit, res1, res2) ==
    IF CheckOptimalTermination(res1) THEN ExtractOutputs(values, 1)
    ELSE IF Retry(before, reinit, res1) /\ CheckOptimalTermination(res2)
         THEN ExtractOutputs(values, 2)
         ELSE [j \in 1 .. NumOutputs |-> 0]

\* lines 645-673: the result row of one case, from the results of its
\* first and (if it is made) second evaluate call
CaseRow(values, before, reinit, res1, res2) ==
    IF CheckOptimalTermination(res1) THEN ExtractOutputs(values, 1)
    ELSE IF Retry(before, reinit, res1) /\ CheckOptimalTermination(res2)
         THEN ExtractOutputs(values, 2)
         ELSE NaNRow

\* lines 633-671: the calls one case makes, in order
CaseCalls(before, reinit, res1) ==
    <<"update_model_values">>
    \o (IF before THEN <<"reinitialize_function">> ELSE <<>>)
    \o <<"optimize_function">>
    \o (IF Retry(before, reinit, res1)
        THEN <<"reinitialize_function", "optimize_function">> ELSE <<>>)

\* line 689: results.solver.termination_condition.name of the last call
CaseStatus(before, reinit, res1, res2) ==
    IF Retry(before, reinit, res1) THEN res2.termination_condition
    ELSE res1.termination_condition

\* lines 620-625: allocate the local result matrix and enter the loop
StartSweep(r) ==
    /\ pc[r] = "sweep"
    /\ local_results' = [local_results EXCEPT
                             ![r] = Zeros(Len(local_values[r]), NumOutputs)]
    /\ local_solve_status_list' = [local_solve_status_list EXCEPT ![r] = <<>>]
    /\ local_output_dict' = [local_output_dict EXCEPT
            ![r] = CreateLocalOutputSkeleton(model, sweep_params, Len(local_values[r]))]
    /\ pc' = [pc EXCEPT ![r] = "loop"]
    /\ UNCHANGED <<configVars, toolVars, global_values, local_values, k, calls, attempts,
                   fail_counter, global_results, mpiVars, fsVars, global_output_dict,
                   sample_split_arr, gatherv_output, collectives>>

\* variant of RaisesValueError without the assertion of line 638
NeverRaises(before, reinit) == FALSE

\* lines 636-640: reinitialize_before_sweep without a reinitialize function
\* raises ValueError out of parameter_sweep
RaisesValueError(before, reinit) == before /\ reinit = None

\* lines 631-693: one iteration of the loop over the local cases
DoCase(r) ==
    /\ pc[r] = "loop"
    /\ k[r] < Len(local_values[r])
    /\ LET values == local_values[r][k[r] + 1]
           before == reinitialize_before_sweep
           reinit == reinitialize_function
       IN  IF RaisesValueError(before, reinit)
           THEN /\ calls' = [calls EXCEPT ![r] = Append(@, <<"update_model_values">>)]
                /\ pc' = [pc EXCEPT ![r] = "ValueError"]
                /\ UNCHANGED <<k, local_results, local_solve_status_list, attempts,
                               local_output_dict>>
           ELSE \E res1 \in optimize_function :
                \E res2 \in (IF Retry(before, reinit, res1)
                              THEN optimize_function ELSE {res1}) :
                  /\ calls' = [calls EXCEPT ![r] = Append(@, CaseCalls(before, reinit, res1))]
                  /\ attempts' = [attempts EXCEPT ![r] =
                        Append(@, IF Retry(before, reinit, res1)
                                  THEN <<res1, res2>> ELSE <<res1>>)]
                  /\ local_results' = [local_results EXCEPT ![r][k[r] + 1] =
                        CaseRow(values, before, reinit, res1, res2)]
                  /\ local_solve_status_list' = [local_solve_status_list EXCEPT ![r] =
                        Append(@, CaseStatus(before, reinit, res1, res2))]
                  /\ local_output_dict' = [local_output_dict EXCEPT ![r] =
                        UpdateLocalOutputDict(model, sweep_params, k[r] + 1, values,
                            IF Retry(before, reinit, res1) THEN 2 ELSE 1,
                            CaseStatus(before, reinit, res1, res2), @)]
                  /\ k' = [k EXCEPT ![r] = @ + 1]
                  /\ UNCHANGED pc
    /\ UNCHANGED <<configVars, toolVars, global_values, local_values, fail_counter,
                   global_results, mpiVars, fsVars, global_output_dict,
                   sample_split_arr, gatherv_output, collectives>>

\* local_solve_status_list.count("optimal")
CountOptimal(statuses) ==
    Cardinality({i \in 1 .. Len(statuses) : statuses[i] = "optimal"})

\* lines 695-699: the loop is exhausted, _do_param_sweep returns
LoopDone(r) ==
    /\ pc[r] = "loop"
    /\ k[r] = Len(local_values[r])
    /\ fail_counter' = [fail_counter EXCEPT
            ![r] = Len(local_values[r]) - CountOptimal(local_solve_status_list[r])]
    /\ local_output_dict' = [local_output_dict EXCEPT
            ![r].solve_status = local_solve_status_list[r]]
    /\ pc' = [pc EXCEPT ![r] = "aggregate"]
    /\ UNCHANGED <<configVars, toolVars, global_values, local_values, k, local_results,
                   local_solve_status_list, calls, attempts, global_results,
                   mpiVars, fsVars, global_output_dict, sample_split_arr,
                   gatherv_output, collectives>>

(* ---------------------------------------------------------------------- *)
(* _aggregate_results                                                      *)
(* ---------------------------------------------------------------------- *)
\* variant of SendCount that counts rows, np.shape(local_results)[0]
SendCountRows(results) == Len(results)

\* np.size(local_results): the number of values rank r sends
SendCount(results) == Len(Flatten(results))

\* the offsets Gatherv derives from the counts: the running total of the
\* counts of the lower ranks
Displacements(counts, rank) ==
    LET below == [i \in 1 .. rank |-> counts[i - 1]]
    IN  IF rank = 0 THEN 0 ELSE CumSum(below)[rank]

\* comm.Gatherv(local_results, (global_results, send_counts), root=0) into
\* a zeroed buffer of recvsize values
Gatherv(sendbufs, counts, recvsize, nprocs) ==
    [i \in 1 .. recvsize |->
        IF \E r \in 0 .. (nprocs - 1) :
              Displacements(counts, r) < i /\ i <= Displacements(counts, r) + counts[r]
        THEN LET r == CHOOSE q \in 0 .. (nprocs - 1) :
                          /\ Displacements(counts, q) < i
                          /\ i <= Displacements(counts, q) + counts[q]
             IN  sendbufs[r][i - Displacements(counts, r)]
        ELSE 0]

\* a flat buffer seen as rows of ncols values
Reshape(flat, ncols) ==
    [i \in 1 .. (Len(flat) \div ncols) |-> SubSeq(flat, (i - 1) * ncols + 1, i * ncols)]

\* variant of AggregateCollectives in which the size gather is skipped
AggregateCollectivesNoGather ==
    << <<"Gatherv", "global_results">>, <<"Bcast", "global_results">> >>

\* lines 250-262: the collectives of _aggregate_results, with their buffers
AggregateCollectives ==
    << <<"Gather", "send_counts">>, <<"Gatherv", "global_results">>,
       <<"Bcast", "global_results">> >>

\* line 265: one process, global_results = np.copy(local_results)
AggregateSerial(r) ==
    /\ pc[r] = "aggregate"
    /\ num_procs = 1
    /\ global_results' = [global_results EXCEPT ![r] = local_results[r]]
    /\ pc' = [pc EXCEPT ![r] = "aggregated"]
    /\ UNCHANGED <<configVars, toolVars, outVars, collectives, global_values, local_values, loopVars, mpiVars, fsVars>>

\* lines 250-259 on a rank other than 0: its contributions to Gather and
\* Gatherv
AggregateSend(r) ==
    /\ pc[r] = "aggregate"
    /\ num_procs > 1
    /\ r # 0
    /\ send_counts' = [send_counts EXCEPT ![r] = SendCount(local_results[r])]
    /\ gatherv_rows' = [gatherv_rows EXCEPT ![r] = Flatten(local_results[r])]
    /\ pc' = [pc EXCEPT ![r] = "bcast_results"]
    /\ collectives' = [collectives EXCEPT ![r] = @ \o AggregateCollectives]
    /\ UNCHANGED <<configVars, toolVars, outVars, global_values, local_values, loopVars, global_results,
                   bcast_values, bcast_results, barrier, fsVars>>

\* lines 250-262 on rank 0: Gather and Gatherv complete when every rank has
\* contributed, then the assembled matrix is broadcast
AggregateRoot(r) ==
    /\ pc[r] = "aggregate"
    /\ num_procs > 1
    /\ r = 0
    /\ \A q \in Ranks \ {0} : send_counts[q] >= 0
    /\ LET counts  == [send_counts EXCEPT ![0] = SendCount(local_results[0])]
           bufs    == [gatherv_rows EXCEPT ![0] = Flatten(local_results[0])]
           recvbuf == Gatherv(bufs, counts, Len(global_values[0]) * NumOutputs, num_procs)
       IN  /\ send_counts' = counts
           /\ gatherv_rows' = bufs
           /\ global_results' = [global_results EXCEPT ![0] = Reshape(recvbuf, NumOutputs)]
           /\ bcast_results' = [posted |-> TRUE, data |-> Reshape(recvbuf, NumOutputs)]
    /\ pc' = [pc EXCEPT ![r] = "aggregated"]
    /\ collectives' = [collectives EXCEPT ![r] = @ \o AggregateCollectives]
    /\ UNCHANGED <<configVars, toolVars, outVars, global_values, local_values, loopVars, bcast_values,
                   barrier, fsVars>>

\* line 262 on a rank other than 0: receive the broadcast matrix
AggregateRecv(r) ==
    /\ pc[r] = "bcast_results"
    /\ bcast_results.posted
    /\ global_results' = [global_results EXCEPT ![r] = bcast_results.data]
    /\ pc' = [pc EXCEPT ![r] = "aggregated"]
    /\ UNCHANGED <<configVars, toolVars, outVars, collectives, global_values, local_values, loopVars, mpiVars, fsVars>>

(* ---------------------------------------------------------------------- *)
(* TerminationConditionMapping and                                         *)
(* _numeric_termination_condition_translation                              *)
(* An argument or a returned value is [type, val]: a str, a numpy integer  *)
(* ("np.integer") or a Python int ("int"); a raised ValueError is the type *)
(* "ValueError".                                                           *)
(* ---------------------------------------------------------------------- *)
\* the members of pyomo.opt.TerminationCondition in the order of their
\* definition; a member compares equal to the string of its name
TerminationCondition ==
    << "unknown", "maxTimeLimit", "maxIterations", "minFunctionValue",
       "minStepLength", "globallyOptimal", "locallyOptimal", "feasible",
       "optimal", "maxEvaluations", "other", "unbounded", "infeasible",
       "infeasibleOrUnbounded", "invalidProblem", "intermediateNonInteger",
       "noSolution", "solverFailure", "internalSolverError", "error",
       "userInterrupt", "resourceInterrupt", "licensingProblems" >>

\* line 46: {condition: idx for idx, condition in enumerate(_TerminationCondition)}
str_to_int_mapping ==
    [condition \in {TerminationCondition[i] : i \in 1 .. Len(TerminationCondition)} |->
        (CHOOSE i \in 1 .. Len(TerminationCondition) :
            TerminationCondition[i] = condition) - 1]

\* variant of int_to_str_mapping that counts from one
int_to_str_mapping_from_one ==
    [idx \in 1 .. Len(TerminationCondition) |-> TerminationCondition[idx]]

\* line 47: {idx: condition for idx, condition in enumerate(_TerminationCondition)}
int_to_str_mapping ==
    [idx \in 0 .. (Len(TerminationCondition) - 1) |-> TerminationCondition[idx + 1]]

ValueError == [type |-> "ValueError", val |-> 0]

\* lines 597-612
NumericTerminationConditionTranslation(x) ==
    IF x.type = "str"
    THEN IF x.val \in DOMAIN str_to_int_mapping
         THEN [type |-> "int", val |-> str_to_int_mapping[x.val]]
         ELSE ValueError
    ELSE IF x.type = "np.integer"
         THEN IF x.val \in DOMAIN int_to_str_mapping
              THEN [type |-> "str", val |-> int_to_str_mapping[x.val]]
              ELSE ValueError
         ELSE ValueError

\* lines 494 and 497: an element of an np.int64 array
AsInt64(x) == [type |-> "np.integer", val |-> x.val]

\* line 493: the codes of a list of status strings
StatusCodes(statuses) ==
    [i \in 1 .. Len(statuses) |->
        NumericTerminationConditionTranslation([type |-> "str", val |-> statuses[i]]).val]

\* line 506: the status strings of an array of codes
StatusStrings(codes) ==
    [i \in 1 .. Len(codes) |->
        NumericTerminationConditionTranslation([type |-> "np.integer", val |-> codes[i]]).val]

(* ---------------------------------------------------------------------- *)
(* _create_global_output                                                   *)
(* ---------------------------------------------------------------------- *)
\* lines 486 and 507: arr[0:req_num_samples]
Trim(arr, req_num_samples) ==
    IF req_num_samples.given /\ req_num_samples.n < Len(arr)
    THEN SubSeq(arr, 1, req_num_samples.n)
    ELSE arr

\* the leaves of one top-level key with their value arrays trimmed
TrimLeaves(leaves, req_num_samples) ==
    [name \in DOMAIN leaves |->
        [leaves[name] EXCEPT !["value"] = Trim(@, req_num_samples)]]

\* the keys of the leaves in the order of local_output_dict.items()
LeafOrder(m, d) ==
    [p \in 1 .. Len(d) |-> <<"sweep_params", ParamNames[p]>>]
    \o [c \in 1 .. Len(m) |-> <<"outputs", m[c].name>>]

\* lines 478-503: the Gatherv calls of _create_global_output, one per leaf
\* and one for the status codes
OutputCollectives(m, d) ==
    [i \in 1 .. Len(LeafOrder(m, d)) |-> <<"Gatherv", LeafOrder(m, d)[i][2]>>]
    \o << <<"Gatherv", "solve_status">> >>

\* lines 474-486 on a rank other than 0: global_output_dict is
\* local_output_dict itself, whose value arrays are rebound to their slices
TrimmedDict(output_dict, req_num_samples) ==
    [sweep_params |-> TrimLeaves(output_dict.sweep_params, req_num_samples),
     outputs      |-> TrimLeaves(output_dict.outputs, req_num_samples),
     solve_status |-> output_dict.solve_status]

\* lines 466-507 on rank 0: every leaf of the copy of the local skeleton
\* receives the Gatherv of the ranks' value arrays, the status list the
\* translation of the gathered codes
GatheredDict(output_dicts, counts, req_num_samples, nprocs) ==
    LET total == Sum([i \in 1 .. nprocs |-> counts[i - 1]])
        gather(key, name) ==
            Gatherv([q \in 0 .. (nprocs - 1) |-> output_dicts[q][key][name]["value"]],
                    counts, total, nprocs)
        codes == Gatherv([q \in 0 .. (nprocs - 1) |->
                             StatusCodes(output_dicts[q].solve_status)],
                         counts, total, nprocs)
    IN  [sweep_params |->
            [name \in DOMAIN output_dicts[0].sweep_params |->
                [output_dicts[0].sweep_params[name] EXCEPT
                    !["value"] = Trim(gather("sweep_params", name), req_num_samples)]],
         outputs |->
            [name \in DOMAIN output_dicts[0].outputs |->
                [output_dicts[0].outputs[name] EXCEPT
                    !["value"] = Trim(gather("outputs", name), req_num_samples)]],
         solve_status |-> Trim(StatusStrings(codes), req_num_samples)]

\* line 454: one process, global_output_dict = local_output_dict
GlobalOutputSerial(r) ==
    /\ pc[r] = "aggregated"
    /\ num_procs = 1
    /\ global_output_dict' = [global_output_dict EXCEPT ![r] = local_output_dict[r]]
    /\ pc' = [pc EXCEPT ![r] = "save"]
    /\ UNCHANGED <<configVars, toolVars, global_values, local_values, loopVars,
                   global_results, mpiVars, fsVars, local_output_dict,
                   sample_split_arr, gatherv_output, collectives>>

\* line 462: the rank enters comm.allgather with its local case count
OutputAllgather(r) ==
    /\ pc[r] = "aggregated"
    /\ num_procs > 1
    /\ sample_split_arr' = [sample_split_arr EXCEPT
            ![r] = Len(local_output_dict[r].solve_status)]
    /\ collectives' = [collectives EXCEPT ![r] = Append(@, <<"allgather", "local_num_cases">>)]
    /\ pc' = [pc EXCEPT ![r] = "allgather"]
    /\ UNCHANGED <<configVars, toolVars, global_values, local_values, loopVars,
                   global_results, mpiVars, fsVars, local_output_dict,
                   global_output_dict, gatherv_output>>

\* lines 462-509 on a rank other than 0: allgather returns when every rank
\* has entered it; the rank sends its leaves and its status codes
OutputSend(r) ==
    /\ pc[r] = "allgather"
    /\ r # 0
    /\ \A q \in Ranks : sample_split_arr[q] >= 0
    /\ gatherv_output' = [gatherv_output EXCEPT
            ![r] = [posted |-> TRUE, data |-> local_output_dict[r]]]
    /\ local_output_dict' = [local_output_dict EXCEPT ![r] = TrimmedDict(@, num_samples)]
    /\ global_output_dict' = [global_output_dict EXCEPT
            ![r] = TrimmedDict(local_output_dict[r], num_samples)]
    /\ collectives' = [collectives EXCEPT ![r] = @ \o OutputCollectives(model, sweep_params)]
    /\ pc' = [pc EXCEPT ![r] = "save"]
    /\ UNCHANGED <<configVars, toolVars, global_values, local_values, loopVars,
                   global_results, mpiVars, fsVars, sample_split_arr>>

\* lines 462-509 on rank 0: every Gatherv completes when every rank has sent
OutputRoot(r) ==
    /\ pc[r] = "allgather"
    /\ r = 0
    /\ \A q \in Ranks : sample_split_arr[q] >= 0
    /\ \A q \in Ranks \ {0} : gatherv_output[q].posted
    /\ LET sent == [q \in Ranks |-> IF q = 0 THEN local_output_dict[0]
                                    ELSE gatherv_output[q].data]
       IN  /\ gatherv_output' = [gatherv_output EXCEPT
                    ![0] = [posted |-> TRUE, data |-> local_output_dict[0]]]
           /\ global_output_dict' = [global_output_dict EXCEPT
                    ![0] = GatheredDict(sent, sample_split_arr, num_samples, num_procs)]
    /\ collectives' = [collectives EXCEPT ![r] = @ \o OutputCollectives(model, sweep_params)]
    /\ pc' = [pc EXCEPT ![r] = "save"]
    /\ UNCHANGED <<configVars, toolVars, global_values, local_values, loopVars,
                   global_results, mpiVars, fsVars, local_output_dict, sample_split_arr>>

(* ---------------------------------------------------------------------- *)
(* _interp_nan_values, for one swept parameter: the points lie on a line   *)
(* and share the denominator of the LinearSample, so that their numerators *)
(* order them; the matrices hold floats as pairs                           *)
(* ---------------------------------------------------------------------- *)
\* line 330: the rows whose first output is finite
Mask(results) ==
    {i \in 1 .. Len(results) : IsFinite(results[i][1])}

\* line 338: griddata(x0, y0, global_values, method='linear') at row i, with
\* the data points at the rows of mask and their values in column kk: the
\* value on the segment between the nearest data points on either side,
\* np.nan outside the convex hull of the data points
Griddata(values, results, mask, kk, i) ==
    LET x(a)  == values[a][1][1]
        below == {a \in mask : x(a) < x(i)}
        above == {b \in mask : x(b) > x(i)}
    IN  IF i \in mask THEN results[i][kk]
        ELSE IF below = {} \/ above = {} THEN np_nan
        ELSE LET a  == CHOOSE c \in below : \A e \in below : x(e) <= x(c)
                 b  == CHOOSE c \in above : \A e \in above : x(c) <= x(e)
                 ya == results[a][kk]
                 yb == results[b][kk]
             IN  IF ~IsFinite(ya) \/ ~IsFinite(yb) THEN np_nan
                 ELSE <<ya[1] * yb[2] * (x(b) - x(i)) + yb[1] * ya[2] * (x(i) - x(a)),
                        ya[2] * yb[2] * (x(b) - x(a))>>

\* variant of InterpNanValues that masks every column by its own values
InterpNanValuesPerColumn(values, results) ==
    [i \in 1 .. Len(results) |->
        [kk \in 1 .. Len(results[i]) |->
            LET mask == {a \in 1 .. Len(results) : IsFinite(results[a][kk])}
            IN  IF i \in mask THEN results[i][kk]
                ELSE Griddata(values, results, mask, kk, i)]]

\* lines 321-341
InterpNanValues(values, results) ==
    LET mask == Mask(results)
    IN  [i \in 1 .. Len(results) |->
            [kk \in 1 .. Len(results[i]) |->
                IF i \in mask THEN results[i][kk]
                ELSE Griddata(values, results, mask, kk, i)]]

(* ---------------------------------------------------------------------- *)
(* _write_output_to_h5 and _read_output_h5                                 *)
(* The file is its groups: one per top-level key, one per leaf below it,   *)
(* with one dataset per entry of the leaf. A string is stored as bytes.    *)
(* ---------------------------------------------------------------------- *)
\* np.finfo('d').min and np.finfo('d').max: the ends of the number range
finfo_d_min == -2147483647

finfo_d_max == 2147483647

\* the bytes of a str, and str.decode("utf-8") of the bytes
Utf8Encode(str) == "b'" \o str

Utf8Decode(bytes) == SubSeq(bytes, 3, Len(bytes))

\* lines 553-559: the dataset of one entry of a leaf
Dataset(subsubkey, subsubitem) ==
    CASE subsubkey = "lower bound" ->
            IF subsubitem.none THEN Bound(finfo_d_min) ELSE subsubitem
      [] subsubkey = "upper bound" ->
            IF subsubitem.none THEN Bound(finfo_d_max) ELSE subsubitem
      [] subsubkey = "units" -> Utf8Encode(subsubitem)
      [] OTHER -> subsubitem

\* lines 543-565
WriteOutputToH5(output_dict) ==
    LET group(item) ==
            [subkey \in DOMAIN item |->
                [subsubkey \in DOMAIN item[subkey] |->
                    Dataset(subsubkey, item[subkey][subsubkey])]]
    IN  [sweep_params |-> group(output_dict.sweep_params),
         outputs      |-> group(output_dict.outputs),
         solve_status |->
            [solve_status |-> [i \in 1 .. Len(output_dict.solve_status) |->
                                  Utf8Encode(output_dict.solve_status[i])]]]

\* variant of ReadOutputH5 that leaves the units as they are stored
ReadOutputH5Bytes(f) ==
    LET group(item) ==
            [subkey \in DOMAIN item |->
                [subsubkey \in DOMAIN item[subkey] |-> item[subkey][subsubkey]]]
    IN  [sweep_params |-> group(f.sweep_params),
         outputs      |-> group(f.outputs),
         solve_status |-> [i \in 1 .. Len(f.solve_status.solve_status) |->
                              Utf8Decode(f.solve_status.solve_status[i])]]

\* lines 569-593
ReadOutputH5(f) ==
    LET group(item) ==
            [subkey \in DOMAIN item |->
                [subsubkey \in DOMAIN item[subkey] |->
                    IF subsubkey = "units" THEN Utf8Decode(item[subkey][subsubkey])
                    ELSE item[subkey][subsubkey]]]
    IN  [sweep_params |-> group(f.sweep_params),
         outputs      |-> group(f.outputs),
         solve_status |-> [i \in 1 .. Len(f.solve_status.solve_status) |->
                              Utf8Decode(f.solve_status.solve_status[i])]]

(* ---------------------------------------------------------------------- *)
(* _save_results                                                           *)
(* ---------------------------------------------------------------------- *)
Digit(n) == <<"0", "1", "2", "3", "4", "5", "6", "7", "8", "9">>[n + 1]

RECURSIVE Decimal(_)
Decimal(n) == IF n < 10 THEN <<Digit(n)>> ELSE Append(Decimal(n \div 10), Digit(n % 10))

RECURSIVE ZeroPad(_, _)
ZeroPad(digits, width) ==
    IF Len(digits) < width THEN ZeroPad(<<"0">> \o digits, width) ELSE digits

\* variant of LocalFileName without the rank
LocalFileNameNoRank(rank) == <<"local_results_">> \o <<".csv">>

\* f'local_results_{rank:03}.csv'; a file name is a sequence of its pieces
LocalFileName(rank) == <<"local_results_">> \o ZeroPad(Decimal(rank), 3) \o <<".csv">>

\* the default of results_fname
results_fname == "output_dict"

\* lines 730-737: the directories rank 0 creates
MakeDirs(csv, dbg) ==
    (IF csv.given /\ csv.head # "" THEN {csv.head} ELSE {})
    \cup (IF dbg # None THEN {dbg} ELSE {})

\* variant of UseBarrier without the barrier
NoBarrier(nprocs) == FALSE

\* line 739: the barrier is entered when there is more than one process
UseBarrier(nprocs) == nprocs > 1

\* one file write: the path, the writer, and what the writer found
WriteOf(head, tail, rank, kind) ==
    [head |-> head, tail |-> tail, rank |-> rank, kind |-> kind,
     dir_exists |-> head \in dirs,
     all_in_barrier |-> barrier = Ranks]

\* lines 722-740: rank 0 makes the directories, every rank enters the barrier
SaveEnter(r) ==
    /\ pc[r] = "save"
    /\ dirs' = IF r = 0 THEN dirs \cup MakeDirs(csv_results_file, debugging_data_dir)
               ELSE dirs
    /\ IF UseBarrier(num_procs)
       THEN /\ barrier' = barrier \cup {r}
            /\ pc' = [pc EXCEPT ![r] = "barrier"]
       ELSE /\ pc' = [pc EXCEPT ![r] = "save_local"]
            /\ UNCHANGED barrier
    /\ collectives' = [collectives EXCEPT
            ![r] = @ \o (IF UseBarrier(num_procs) THEN <<<<"Barrier", "">>>> ELSE <<>>)]
    /\ UNCHANGED <<configVars, toolVars, outVars, global_values, local_values, loopVars, global_results,
                   bcast_values, send_counts, gatherv_rows, bcast_results, files>>

\* line 740: comm.Barrier() returns when every rank has entered it
SaveBarrier(r) ==
    /\ pc[r] = "barrier"
    /\ barrier = Ranks
    /\ pc' = [pc EXCEPT ![r] = "save_local"]
    /\ UNCHANGED <<configVars, toolVars, outVars, collectives, global_values, local_values, loopVars, global_results,
                   mpiVars, fsVars>>

\* lines 743-751: the per-rank debugging dump
SaveLocal(r) ==
    /\ pc[r] = "save_local"
    /\ IF debugging_data_dir # None
       THEN LET w == WriteOf(debugging_data_dir, LocalFileName(r), r, "local_results")
            IN  /\ files' = files \cup {w}
                /\ pc' = [pc EXCEPT ![r] = IF w.dir_exists THEN "save_global"
                                                            ELSE "FileNotFoundError"]
       ELSE /\ pc' = [pc EXCEPT ![r] = "save_global"]
            /\ UNCHANGED files
    /\ UNCHANGED <<configVars, toolVars, outVars, collectives, global_values, local_values, loopVars, global_results,
                   mpiVars, dirs>>

\* lines 756-776: the files rank 0 writes when csv_results_file is given:
\* the table, the h5 and txt files of _write_outputs, the interpolated table
GlobalWrites(csv, interpolate) ==
    { WriteOf(csv.head, csv.tail, 0, "csv"),
      WriteOf(csv.head, <<results_fname, ".h5">>, 0, "h5"),
      WriteOf(csv.head, <<results_fname, ".txt">>, 0, "txt") }
    \cup (IF interpolate
          THEN {WriteOf(csv.head, <<"interpolated_">> \o csv.tail, 0, "interpolated")}
          ELSE {})

\* lines 753-778: the global artifacts, then _save_results returns
SaveGlobal(r) ==
    /\ pc[r] = "save_global"
    /\ IF r = 0 /\ csv_results_file.given
       THEN LET ws == GlobalWrites(csv_results_file, interpolate_nan_outputs)
            IN  /\ files' = files \cup ws
                /\ pc' = [pc EXCEPT ![r] = IF \A w \in ws : w.dir_exists
                                           THEN "done" ELSE "FileNotFoundError"]
       ELSE /\ pc' = [pc EXCEPT ![r] = "done"]
            /\ UNCHANGED files
    /\ UNCHANGED <<configVars, toolVars, outVars, collectives, global_values, local_values, loopVars, global_results,
                   mpiVars, dirs>>

(* ====================================================================== *)
(* Specifications                                                          *)
(* ====================================================================== *)
\* the arguments that the combination builder and the partitioner ignore
DefaultArguments ==
    /\ optimize_function = AllResults
    /\ reinitialize_function = None
    /\ reinitialize_before_sweep = FALSE
    /\ csv_results_file = NoFile
    /\ debugging_data_dir = None
    /\ interpolate_nan_outputs = FALSE
    /\ model = Flowsheet
    /\ num_samples = NoSamples

(* ---- the combination builder on every rank ---- *)
InitBuild ==
    /\ \E d \in ParamSets, nprocs \in 1 .. MaxProcs : InitRun(d, nprocs)
    /\ DefaultArguments

NextBuild == \E r \in Ranks : Build(r)

SpecBuild == InitBuild /\ [][NextBuild]_vars

(* ---- the combination builder and the partitioner on every rank ---- *)
NextDivide == \E r \in Ranks : Build(r) \/ Divide(r)

SpecDivide == InitBuild /\ [][NextDivide]_vars

(* ---- every rank up to the return of _do_param_sweep ---- *)
InitLoop ==
    /\ \E d \in SmallParamSets, nprocs \in 1 .. MaxProcs : InitRun(d, nprocs)
    /\ optimize_function = AllResults
    /\ reinitialize_function \in {None, "reinitialize"}
    /\ reinitialize_before_sweep \in BOOLEAN
    /\ csv_results_file = NoFile
    /\ debugging_data_dir = None
    /\ interpolate_nan_outputs = FALSE
    /\ model = Flowsheet
    /\ num_samples = NoSamples

NextLoop ==
    \E r \in Ranks : \/ Build(r)
                      \/ Divide(r)
                      \/ StartSweep(r)
                      \/ DoCase(r)
                      \/ LoopDone(r)

SpecLoop == InitLoop /\ [][NextLoop]_vars

(* ---- every rank up to the return of _aggregate_results, with an ---- *)
(* ---- evaluate hook that returns optimal or infeasible            ---- *)
TwoResults ==
    { [status |-> "ok",      termination_condition |-> "optimal"],
      [status |-> "warning", termination_condition |-> "infeasible"] }

InitSweep ==
    /\ \E d \in SmallParamSets, nprocs \in 1 .. MaxProcs : InitRun(d, nprocs)
    /\ optimize_function = TwoResults
    /\ reinitialize_function \in {None, "reinitialize"}
    /\ reinitialize_before_sweep \in BOOLEAN
    /\ csv_results_file = NoFile
    /\ debugging_data_dir = None
    /\ interpolate_nan_outputs = FALSE
    /\ model = Flowsheet
    /\ num_samples = NoSamples

NextSweep ==
    \E r \in Ranks : \/ Build(r)
                      \/ Divide(r)
                      \/ StartSweep(r)
                      \/ DoCase(r)
                      \/ LoopDone(r)
                      \/ AggregateSerial(r)
                      \/ AggregateSend(r)
                      \/ AggregateRoot(r)
                      \/ AggregateRecv(r)

SpecSweep == InitSweep /\ [][NextSweep]_vars

(* ---- _save_results on every rank, entered after a sweep in which ---- *)
(* ---- every case was optimal at its first evaluate                  ---- *)
CsvFiles ==
    { NoFile,
      [given |-> TRUE, head |-> "",    tail |-> <<"results", ".csv">>],
      [given |-> TRUE, head |-> "out", tail |-> <<"results", ".csv">>],
      [given |-> TRUE, head |-> "dbg", tail |-> <<"results", ".csv">>],
      [given |-> TRUE, head |-> "dbg", tail |-> LocalFileName(1)] }

Optimal == [status |-> "ok", termination_condition |-> "optimal"]

\* the result rows of cases that are optimal at the first evaluate
SweptRows(rows) == [i \in 1 .. Len(rows) |-> ExtractOutputs(rows[i], 1)]

RECURSIVE SweptUpdates(_, _, _, _)
\* the skeleton of n cases after the first i of them were optimal at the
\* first evaluate
SweptUpdates(m, d, rows, i) ==
    IF i = 0 THEN CreateLocalOutputSkeleton(m, d, Len(rows))
    ELSE UpdateLocalOutputDict(m, d, i, rows[i], 1, "optimal",
                               SweptUpdates(m, d, rows, i - 1))

\* the skeleton a rank returns from a loop over rows in which every case
\* was optimal at its first evaluate
SweptDict(m, d, rows) ==
    [SweptUpdates(m, d, rows, Len(rows)) EXCEPT
        !.solve_status = [i \in 1 .. Len(rows) |-> "optimal"]]

\* the variables of the ranks of a run of nprocs processes over d at
\* position at, when each rank has evaluated its block and holds the
\* aggregated matrix and the global skeleton; num_samples is None
SweptRanks(d, nprocs, at) ==
    LET a    == BuildCombinations(d)
        rk   == 0 .. (nprocs - 1)
        mine == [r \in rk |-> DivideCombinations(a, r, nprocs)]
    IN  /\ sweep_params = d
        /\ num_procs = nprocs
        /\ pc = [r \in rk |-> at]
        /\ global_values = [r \in rk |-> a]
        /\ local_values = mine
        /\ k = [r \in rk |-> Len(mine[r])]
        /\ local_results = [r \in rk |-> SweptRows(mine[r])]
        /\ local_solve_status_list =
              [r \in rk |-> [i \in 1 .. Len(mine[r]) |-> "optimal"]]
        /\ calls = [r \in rk |-> [i \in 1 .. Len(mine[r]) |->
                                    CaseCalls(FALSE, None, Optimal)]]
        /\ attempts = [r \in rk |-> [i \in 1 .. Len(mine[r]) |-> <<Optimal>>]]
        /\ fail_counter = [r \in rk |-> 0]
        /\ global_results = [r \in rk |-> SweptRows(a)]
        /\ bcast_values = IF nprocs > 1 THEN [posted |-> TRUE, data |-> a]
                          ELSE NotPosted
        /\ send_counts = [r \in rk |-> IF nprocs > 1
                                        THEN SendCount(SweptRows(mine[r])) ELSE -1]
        /\ gatherv_rows = [r \in rk |-> IF nprocs > 1
                                         THEN Flatten(SweptRows(mine[r])) ELSE <<>>]
        /\ bcast_results = IF nprocs > 1
                           THEN [posted |-> TRUE, data |-> SweptRows(a)]
                           ELSE NotPosted
        /\ local_output_dict = [r \in rk |-> SweptDict(Flowsheet, d, mine[r])]
        /\ global_output_dict =
              [r \in rk |-> IF nprocs > 1 /\ r = 0
                            THEN GatheredDict([q \in rk |-> SweptDict(Flowsheet, d, mine[q])],
                                              [q \in rk |-> Len(mine[q])], NoSamples, nprocs)
                            ELSE SweptDict(Flowsheet, d, mine[r])]
        /\ sample_split_arr = [r \in rk |-> IF nprocs > 1 THEN Len(mine[r]) ELSE -1]
        /\ gatherv_output =
              [r \in rk |-> IF nprocs > 1
                            THEN [posted |-> TRUE, data |-> SweptDict(Flowsheet, d, mine[r])]
                            ELSE NotPosted]
        /\ collectives =
              [r \in rk |-> IF nprocs > 1
                            THEN << <<"Bcast", "global_combo_array">> >>
                                 \o AggregateCollectives
                                 \o << <<"allgather", "local_num_cases">> >>
                                 \o OutputCollectives(Flowsheet, d)
                            ELSE <<>>]

SweptState(d, nprocs, at) == SweptRanks(d, nprocs, at) /\ NoTools

InitSave ==
    /\ \E d \in SmallParamSets, nprocs \in 1 .. MaxProcs : SweptState(d, nprocs, "save")
    /\ optimize_function = {Optimal}
    /\ reinitialize_function = None
    /\ reinitialize_before_sweep = FALSE
    /\ csv_results_file \in CsvFiles
    /\ debugging_data_dir \in {None, "dbg"}
    /\ interpolate_nan_outputs \in BOOLEAN
    /\ model = Flowsheet
    /\ num_samples = NoSamples
    /\ barrier = {}
    /\ dirs = {""}
    /\ files = {}

NextSave ==
    \E r \in Ranks : \/ SaveEnter(r)
                      \/ SaveBarrier(r)
                      \/ SaveLocal(r)
                      \/ SaveGlobal(r)

SpecSave == InitSave /\ [][NextSave]_vars

(* ---- every rank up to the return of _aggregate_local_results, with ---- *)
(* ---- a num_samples argument                                         ---- *)
SampleCounts == {NoSamples} \cup {[given |-> TRUE, n |-> n] : n \in 1 .. MaxRows}

InitOutput ==
    /\ \E d \in SmallParamSets, nprocs \in 1 .. MaxProcs : InitRun(d, nprocs)
    /\ optimize_function = TwoResults
    /\ reinitialize_function = None
    /\ reinitialize_before_sweep = FALSE
    /\ csv_results_file = NoFile
    /\ debugging_data_dir = None
    /\ interpolate_nan_outputs = FALSE
    /\ model = Flowsheet
    /\ num_samples \in SampleCounts

NextOutput ==
    \E r \in Ranks : \/ Build(r)
                      \/ Divide(r)
                      \/ StartSweep(r)
                      \/ DoCase(r)
                      \/ LoopDone(r)
                      \/ AggregateSerial(r)
                      \/ AggregateSend(r)
                      \/ AggregateRoot(r)
                      \/ AggregateRecv(r)
                      \/ GlobalOutputSerial(r)
                      \/ OutputAllgather(r)
                      \/ OutputSend(r)
                      \/ OutputRoot(r)

SpecOutput == InitOutput /\ [][NextOutput]_vars

(* ---- parameter_sweep on every rank, from its entry to its return ---- *)
OutFile == [given |-> TRUE, head |-> "out", tail |-> <<"results", ".csv">>]

InitSweepAndSave ==
    /\ \E d \in SmallParamSets, nprocs \in 1 .. MaxProcs : InitRun(d, nprocs)
    /\ optimize_function = TwoResults
    /\ \/ reinitialize_function = None /\ reinitialize_before_sweep \in BOOLEAN
       \/ reinitialize_function = "reinitialize" /\ reinitialize_before_sweep = FALSE
    /\ csv_results_file \in {NoFile, OutFile}
    /\ debugging_data_dir = "dbg"
    /\ interpolate_nan_outputs = TRUE
    /\ model = Flowsheet
    /\ num_samples = NoSamples

\* one step of rank r
Step(r) ==
    \/ Build(r)
    \/ Divide(r)
    \/ StartSweep(r)
    \/ DoCase(r)
    \/ LoopDone(r)
    \/ AggregateSerial(r)
    \/ AggregateSend(r)
    \/ AggregateRoot(r)
    \/ AggregateRecv(r)
    \/ GlobalOutputSerial(r)
    \/ OutputAllgather(r)
    \/ OutputSend(r)
    \/ OutputRoot(r)
    \/ SaveEnter(r)
    \/ SaveBarrier(r)
    \/ SaveLocal(r)
    \/ SaveGlobal(r)

NextSweepAndSave == \E r \in Ranks : Step(r)

SpecSweepAndSave == InitSweepAndSave /\ [][NextSweepAndSave]_vars

\* the MPI processes keep running: as long as some rank can take a step,
\* because it is not waiting or the collective it waits in can complete, a
\* step is taken
RanksRun == WF_vars(NextSweepAndSave)

SpecSweepAndSaveFair == SpecSweepAndSave /\ RanksRun

(* ---- _numeric_termination_condition_translation on its own ---- *)
\* strings that are not names of TerminationCondition
UnknownStatuses == {"", "Optimal", "converged", "None"}

\* the arguments of the translation: every known status, strings outside
\* the enumeration, and the codes in and around the known range as numpy
\* integers and as Python ints
TranslationArguments ==
    {[type |-> "str", val |-> TerminationCondition[i]] : i \in 1 .. Len(TerminationCondition)}
    \cup {[type |-> "str", val |-> u] : u \in UnknownStatuses}
    \cup {[type |-> t, val |-> n] : t \in {"np.integer", "int"},
                                     n \in (0 - MaxRows) .. (Len(TerminationCondition) + MaxRows)}

InitTranslation ==
    /\ InitRanks(<<>>, 1)
    /\ DefaultArguments
    /\ termination_condition \in TranslationArguments
    /\ translated = <<>>
    /\ global_results_clean = <<>>
    /\ h5_file = NoDict
    /\ h5_output_dict = NoDict

\* the translation is called with the argument, and then with what it
\* returned: a code as an element of an np.int64 array (line 494), a status
\* as it is
Translate ==
    /\ Len(translated) < 2
    /\ translated # <<>> => translated[1].type # "ValueError"
    /\ LET x == IF translated = <<>> THEN termination_condition
                ELSE IF translated[1].type = "int" THEN AsInt64(translated[1])
                     ELSE translated[1]
       IN  translated' = Append(translated, NumericTerminationConditionTranslation(x))
    /\ UNCHANGED <<configVars, pc, global_values, local_values, loopVars, global_results,
                   mpiVars, fsVars, outVars, collectives, termination_condition,
                   global_results_clean, h5_file, h5_output_dict>>

SpecTranslation == InitTranslation /\ [][Translate]_vars

(* ---- _interp_nan_values on its own ---- *)
\* the result matrices of a combination array: every cell holds the output
\* of its case or np.nan
ResultMatrices(a) ==
    {[i \in 1 .. Len(a) |->
        [j \in 1 .. NumOutputs |->
            IF <<i, j>> \in failed THEN np_nan ELSE Float(ExtractOutputs(a[i], 1)[j])]]
     : failed \in SUBSET ((1 .. Len(a)) \X (1 .. NumOutputs))}

\* global_results_clean holds the matrix that is passed in (the copy of
\* line 323), followed by what the calls returned
InitInterpolation ==
    /\ \E d \in SmallParamSets :
          /\ SweptRanks(d, 1, "interpolate")
          /\ \E results \in ResultMatrices(BuildCombinations(d)) :
                global_results_clean = <<results>>
    /\ optimize_function = {Optimal}
    /\ reinitialize_function = None
    /\ reinitialize_before_sweep = FALSE
    /\ csv_results_file = OutFile
    /\ debugging_data_dir = None
    /\ interpolate_nan_outputs = TRUE
    /\ model = Flowsheet
    /\ num_samples = NoSamples
    /\ barrier = {}
    /\ dirs = {""}
    /\ files = {}
    /\ termination_condition = [type |-> "none", val |-> 0]
    /\ translated = <<>>
    /\ h5_file = NoDict
    /\ h5_output_dict = NoDict

\* _interp_nan_values is called with the matrix, and then with what it
\* returned; with fewer than two data points griddata raises or fills
\* with np.nan
Interpolate ==
    /\ pc[0] = "interpolate"
    /\ Len(global_results_clean) < 3
    /\ LET results == global_results_clean[Len(global_results_clean)]
       IN  \/ /\ Cardinality(Mask(results)) < 2
              /\ pc' = [pc EXCEPT ![0] = "QhullError"]
              /\ UNCHANGED global_results_clean
           \/ /\ global_results_clean' =
                    Append(global_results_clean, InterpNanValues(global_values[0], results))
              /\ UNCHANGED pc
    /\ UNCHANGED <<configVars, global_values, local_values, loopVars, global_results,
                   mpiVars, fsVars, outVars, collectives, termination_condition,
                   translated, h5_file, h5_output_dict>>

SpecInterpolation == InitInterpolation /\ [][Interpolate]_vars

(* ---- _write_output_to_h5 and _read_output_h5 on their own ---- *)
\* the status lists of n cases
StatusLists(n) == [1 .. n -> {"optimal", "infeasible", "locallyOptimal"}]

RECURSIVE SkeletonUpdates(_, _, _, _, _)
\* the skeleton after the first i cases of rows ended with the given statuses
SkeletonUpdates(m, d, rows, statuses, i) ==
    IF i = 0 THEN CreateLocalOutputSkeleton(m, d, Len(rows))
    ELSE UpdateLocalOutputDict(m, d, i, rows[i], 1, statuses[i],
                               SkeletonUpdates(m, d, rows, statuses, i - 1))

\* the skeletons that a sweep of one process over d returns
Skeletons(m, d) ==
    LET rows == BuildCombinations(d)
    IN  {[SkeletonUpdates(m, d, rows, statuses, Len(rows)) EXCEPT
             !.solve_status = statuses] : statuses \in StatusLists(Len(rows))}

\* h5_output_dict holds the skeleton that is written, followed by the one
\* that is read back
InitH5 ==
    /\ InitRanks(<<>>, 1)
    /\ DefaultArguments
    /\ \E d \in SmallParamSets, m \in Flowsheets :
          h5_output_dict \in {<<skeleton>> : skeleton \in Skeletons(m, d)}
    /\ h5_file = NoDict
    /\ termination_condition = [type |-> "none", val |-> 0]
    /\ translated = <<>>
    /\ global_results_clean = <<>>

WriteH5 ==
    /\ DOMAIN h5_file.outputs = {}
    /\ h5_file' = WriteOutputToH5(h5_output_dict[1])
    /\ UNCHANGED <<configVars, pc, global_values, local_values, loopVars, global_results,
                   mpiVars, fsVars, outVars, collectives, termination_condition,
                   translated, global_results_clean, h5_output_dict>>

ReadH5 ==
    /\ DOMAIN h5_file.outputs # {}
    /\ Len(h5_output_dict) = 1
    /\ h5_output_dict' = Append(h5_output_dict, ReadOutputH5(h5_file))
    /\ UNCHANGED <<configVars, pc, global_values, local_values, loopVars, global_results,
                   mpiVars, fsVars, outVars, collectives, termination_condition,
                   translated, global_results_clean, h5_file>>

NextH5 == WriteH5 \/ ReadH5

SpecH5 == InitH5 /\ [][NextH5]_vars

(* ---- every rank up to the return of _do_param_sweep, over the two ---- *)
(* ---- flowsheets                                                     ---- *)
InitSkeleton ==
    /\ \E d \in SmallParamSets, nprocs \in 1 .. MaxProcs : InitRun(d, nprocs)
    /\ optimize_function = AllResults
    /\ reinitialize_function \in {None, "reinitialize"}
    /\ reinitialize_before_sweep = FALSE
    /\ csv_results_file = NoFile
    /\ debugging_data_dir = None
    /\ interpolate_nan_outputs = FALSE
    /\ model \in Flowsheets
    /\ num_samples = NoSamples

SpecSkeleton == InitSkeleton /\ [][NextLoop]_vars

(* ====================================================================== *)
(* Claims                                                                  *)
(* ====================================================================== *)
Built(r) == pc[r] # "build"

Divided(r) == pc[r] \notin {"build", "divide"}

\* the chunks of ranks 0..W-1, in rank order
ChunksInRankOrder == [i \in 1 .. num_procs |-> local_values[i - 1]]

\* number of rows that the ranks below r own
RowsBelow(r) == Len(Flatten([i \in 1 .. r |-> local_values[i - 1]]))

\* C1: once every rank has taken its block, each block is a contiguous run
\* of rows of the global array that starts where the blocks of the lower
\* ranks end (so the blocks are pairwise disjoint), and the blocks
\* concatenated in rank order are the global array, row for row.
C1_ChunksReconstruct ==
    (\A r \in Ranks : Divided(r)) =>
        /\ Flatten(ChunksInRankOrder) = global_values[0]
        /\ \A r \in Ranks :
              local_values[r] = SubSeq(global_values[0], RowsBelow(r) + 1,
                                       RowsBelow(r) + Len(local_values[r]))
        /\ \A r, s \in Ranks :
              r # s => \A i \in 1 .. Len(local_values[r]), j \in 1 .. Len(local_values[s]) :
                          local_values[r][i] # local_values[s][j]

\* C1 witness: three ranks split four rows into blocks of 2, 1 and 1 rows
C1_Witness ==
    /\ num_procs = 3
    /\ \A r \in Ranks : Divided(r)
    /\ Len(global_values[0]) = 4
    /\ Len(local_values[0]) = 2 /\ Len(local_values[1]) = 1 /\ Len(local_values[2]) = 1

\* C7: the block of rank r has (N div W) + 1 rows when r < N mod W and
\* N div W rows otherwise, it starts at row r*(N div W) + min(r, N mod W),
\* and the sizes of two blocks differ by at most one row.
C7_BlockSizes ==
    LET N == Len(global_values[0])
        W == num_procs
    IN  /\ \A r \in Ranks : Divided(r) =>
              LET size  == IF r < N % W THEN (N \div W) + 1 ELSE N \div W
                  start == r * (N \div W) + (IF r < N % W THEN r ELSE N % W)
              IN  /\ Len(local_values[r]) = size
                  /\ local_values[r] = SubSeq(global_values[r], start + 1, start + size)
        /\ \A r, s \in Ranks : Divided(r) /\ Divided(s) =>
              Len(local_values[r]) - Len(local_values[s]) \in {-1, 0, 1}

\* C7 witness: two ranks and three rows, rank 0 holds two rows, rank 1 one
C7_Witness ==
    /\ num_procs = 2
    /\ Divided(0) /\ Divided(1)
    /\ Len(global_values[0]) = 3
    /\ Len(local_values[0]) = 2 /\ Len(local_values[1]) = 1

\* the position of a sampled value in its parameter's vector
LexLess(a, b) ==
    \E p \in 1 .. Len(a) : /\ \A q \in 1 .. (p - 1) : a[q] = b[q]
                           /\ a[p][1] * b[p][2] < b[p][1] * a[p][2]

\* C8: on rank 0 the fixed-sampling array has c1*...*cP rows, every row
\* takes its p-th entry from the p-th parameter's vector, and the rows are
\* strictly increasing in lexicographic order with the first parameter the
\* most significant (row-major order, no row repeated); counts [2,3] give
\* six rows.
C8_CartesianRowMajor ==
    Built(0) =>
        LET a      == global_values[0]
            counts == [p \in 1 .. Len(sweep_params) |-> sweep_params[p].num_samples]
        IN  /\ Len(a) = Prod(counts)
            /\ \A i \in 1 .. Len(a) :
                  /\ Len(a[i]) = Len(sweep_params)
                  /\ \A p \in 1 .. Len(sweep_params) :
                        \E n \in 1 .. counts[p] : a[i][p] = LinearSample(sweep_params[p])[n]
            /\ \A i \in 1 .. (Len(a) - 1) : LexLess(a[i], a[i + 1])
            /\ (counts = <<2, 3>> => Len(a) = 6)

\* C8 witness: counts [2,3] built on rank 0
C8_Witness ==
    /\ Built(0)
    /\ Len(sweep_params) = 2
    /\ sweep_params[1].num_samples = 2 /\ sweep_params[2].num_samples = 3
    /\ Len(global_values[0]) = 6

\* _do_param_sweep has returned on rank r
LoopReturned(r) == pc[r] \notin {"build", "divide", "sweep", "loop", "ValueError"}

\* the cases rank r has finished
Finished(r) == 1 .. Len(attempts[r])

C4_RetryOnce ==
    (reinitialize_function # None /\ ~reinitialize_before_sweep) =>
        \A r \in Ranks : \A i \in Finished(r) :
            LET values == local_values[r][i]
                att    == attempts[r][i]
            IN  IF ~CheckOptimalTermination(att[1])
                THEN /\ calls[r][i] = <<"update_model_values", "optimize_function",
                                        "reinitialize_function", "optimize_function">>
                     /\ Len(att) = 2
                     /\ (local_results[r][i] = ExtractOutputs(values, 2))
                            <=> CheckOptimalTermination(att[2])
                     /\ ~CheckOptimalTermination(att[2]) => local_results[r][i] = NaNRow
                ELSE /\ calls[r][i] = <<"update_model_values", "optimize_function">>
                     /\ Len(att) = 1
                     /\ local_results[r][i] = ExtractOutputs(values, 1)

\* C4 witness: one case retried with success, one retried without, one
\* optimal at once
C4_Witness ==
    /\ reinitialize_function # None /\ ~reinitialize_before_sweep
    /\ Len(attempts[0]) = 3
    /\ ~CheckOptimalTermination(attempts[0][1][1])
    /\ CheckOptimalTermination(attempts[0][1][2])
    /\ local_results[0][1] = ExtractOutputs(local_values[0][1], 2)
    /\ ~CheckOptimalTermination(attempts[0][2][1])
    /\ ~CheckOptimalTermination(attempts[0][2][2])
    /\ CheckOptimalTermination(attempts[0][3][1])

C6_FailsOnEveryWorker ==
    (reinitialize_before_sweep /\ reinitialize_function = None) =>
        \A r \in Ranks : ~LoopReturned(r)

\* C6 amended: with reinitialize_before_sweep enabled and no hook, no rank
\* invokes evaluate; a rank whose local chunk is not empty never finishes a
\* case nor returns from the loop, and raises ValueError right after the
\* parameter write of its first case; a rank whose local chunk is empty
\* does not raise.
C6_FailsOnNonEmptyChunk ==
    (reinitialize_before_sweep /\ reinitialize_function = None) =>
        \A r \in Ranks :
            /\ attempts[r] = <<>>
            /\ \A i \in 1 .. Len(calls[r]) : calls[r][i] = <<"update_model_values">>
            /\ k[r] = 0
            /\ Len(local_values[r]) > 0 => ~LoopReturned(r)
            /\ pc[r] = "ValueError" =>
                  Len(local_values[r]) > 0 /\ Len(calls[r]) = 1

\* C6 witness: of two ranks and one case, rank 0 raised and rank 1, whose
\* chunk is empty, returned from the loop
C6_Witness ==
    /\ reinitialize_before_sweep /\ reinitialize_function = None
    /\ num_procs = 2
    /\ pc[0] = "ValueError"
    /\ Len(local_values[1]) = 0 /\ LoopReturned(1)

\* _aggregate_results has returned on rank r
Aggregated(r) == pc[r] = "aggregated"

\* the rank and local index that evaluated the combination row values
OwnerOf(values) ==
    CHOOSE c \in UNION {{<<q, j>> : j \in 1 .. Len(local_values[q])} : q \in Ranks} :
        local_values[c[1]][c[2]] = values

\* the result matrix of one worker that evaluates every row of the global
\* array itself, with the same evaluate results for every case
SerialResults(r) ==
    [i \in 1 .. Len(global_values[r]) |->
        LET c   == OwnerOf(global_values[r][i])
            att == attempts[c[1]][c[2]]
        IN  CaseRow(global_values[r][i], reinitialize_before_sweep,
                    reinitialize_function, att[1], att[Len(att)])]

\* C2: when aggregation has returned on a rank, row i of its global result
\* matrix is the row that the owning worker computed for row i of the
\* global combination array, and the matrix is the one a single worker
\* computes for the same evaluate results.
C2_AggregationPreservesOrder ==
    \A r \in Ranks : Aggregated(r) =>
        /\ Len(global_results[r]) = Len(global_values[r])
        /\ \A i \in 1 .. Len(global_values[r]) :
              LET c == OwnerOf(global_values[r][i])
              IN  global_results[r][i] = local_results[c[1]][c[2]]
        /\ global_results[r] = SerialResults(r)

\* C2 witness: two ranks and three rows; rank 1 holds the aggregated
\* matrix, whose second row failed and whose third row, evaluated by rank
\* 1, succeeded
C2_Witness ==
    /\ num_procs = 2
    /\ Aggregated(1)
    /\ Len(global_values[1]) = 3
    /\ global_results[1][2] = NaNRow
    /\ global_results[1][3] = ExtractOutputs(global_values[1][3], 1)

\* the path of a file write
PathOf(w) == <<w.head, w.tail>>

GlobalKinds == {"csv", "h5", "txt", "interpolated"}

\* C9: with more than one process, every file write (global artifact or
\* debugging dump) is made when every rank has entered the barrier, which
\* the writer has therefore passed, and into a directory that exists; rank
\* 0 has created the output directories when it enters the barrier.
C9_WritesAfterBarrier ==
    num_procs > 1 =>
        /\ \A w \in files :
              /\ w.all_in_barrier
              /\ w.dir_exists
              /\ pc[w.rank] \in {"save_local", "save_global", "done"}
        /\ 0 \in barrier => MakeDirs(csv_results_file, debugging_data_dir) \subseteq dirs
        /\ \A r \in Ranks : pc[r] # "FileNotFoundError"

\* C9 witness: two ranks are done, rank 1 has written its dump into the
\* debugging directory and rank 0 the table into the output directory
C9_Witness ==
    /\ num_procs = 2
    /\ pc[0] = "done" /\ pc[1] = "done"
    /\ \E w \in files : w.rank = 1 /\ w.kind = "local_results" /\ w.head = "dbg"
    /\ \E w \in files : w.rank = 0 /\ w.kind = "csv" /\ w.head = "out"

\* C10 as claimed: no two ranks write the same file.
C10_NoSharedFile ==
    \A v, w \in files : PathOf(v) = PathOf(w) => v.rank = w.rank

\* csv_results_file is the path of the debugging dump of a rank other than 0
CsvIsForeignDump ==
    /\ csv_results_file.given
    /\ debugging_data_dir # None
    /\ csv_results_file.head = debugging_data_dir
    /\ \E r \in Ranks \ {0} : csv_results_file.tail = LocalFileName(r)

\* C10 amended: the global artifacts are written by rank 0 only, after the
\* barrier when there is more than one process; the debugging dump of a
\* rank is written by that rank only and the dumps of two ranks have
\* different paths; no two ranks write the same file unless
\* csv_results_file names the debugging dump of a rank other than 0.
C10_NoSharedFileUnlessAliased ==
    /\ \A w \in files :
          /\ w.kind \in GlobalKinds => w.rank = 0 /\ (num_procs > 1 => w.all_in_barrier)
          /\ w.kind = "local_results" => w.tail = LocalFileName(w.rank)
    /\ \A v, w \in files :
          (v.kind = "local_results" /\ w.kind = "local_results" /\ v.rank # w.rank)
              => PathOf(v) # PathOf(w)
    /\ ~CsvIsForeignDump => \A v, w \in files : PathOf(v) = PathOf(w) => v.rank = w.rank

\* C10 witness: three ranks have written their dumps into the directory
\* that also receives the global artifacts of rank 0
C10_Witness ==
    /\ num_procs = 3
    /\ ~CsvIsForeignDump
    /\ \A r \in Ranks : \E w \in files : w.rank = r /\ w.kind = "local_results"
    /\ \E w \in files : w.kind = "csv" /\ w.head = debugging_data_dir
    /\ \E w \in files : w.kind = "h5"

\* _aggregate_results has returned on rank r: its first aggregation round
ResultsAggregated(r) ==
    /\ pc[r] \notin {"build", "divide", "sweep", "loop", "ValueError", "aggregate",
                     "bcast_results"}
    /\ Len(global_results[r]) = Len(global_values[r])

\* _create_global_output has returned on rank r: its second aggregation round
OutputAggregated(r) ==
    /\ ResultsAggregated(r)
    /\ pc[r] \notin {"aggregated", "allgather"}
    /\ DOMAIN global_output_dict[r].outputs # {}
    /\ num_procs > 1 =>
          LET rounds == AggregateCollectives
                        \o << <<"allgather", "local_num_cases">> >>
                        \o OutputCollectives(model, sweep_params)
          IN  \E i \in 1 .. (Len(collectives[r]) - Len(rounds) + 1) :
                  SubSeq(collectives[r], i, i + Len(rounds) - 1) = rounds

\* C11: when a rank has aborted with the configuration error no file of any
\* kind has been written, by any rank; and every file that is written
\* (table, h5, txt, interpolated table, debugging dump) is written by a rank
\* on which both aggregation rounds have returned, after they have returned
\* on rank 0, which assembles the global matrix and the global skeleton.
C11_NoArtifactBeforeAggregation ==
    /\ (\E r \in Ranks : pc[r] = "ValueError") => files = {}
    /\ \A w \in files : OutputAggregated(w.rank) /\ OutputAggregated(0)

\* C11 witness: of two ranks that were to write the table and their dumps,
\* rank 0 has raised ValueError in its only case and rank 1, whose chunk is
\* empty, waits for the broadcast of the result matrix; no file exists
C11_Witness ==
    /\ num_procs = 2
    /\ csv_results_file.given /\ debugging_data_dir # None
    /\ pc[0] = "ValueError"
    /\ pc[1] = "bcast_results"
    /\ files = {}

\* C11 witness of the writes: three ranks have returned, the files exist
C11_WitnessWritten ==
    /\ num_procs = 3
    /\ \A r \in Ranks : pc[r] = "done"
    /\ \E w \in files : w.kind = "interpolated"
    /\ \E w \in files : w.kind = "local_results" /\ w.rank = 2

\* the status strings of the enumeration
KnownStatuses == {TerminationCondition[i] : i \in 1 .. Len(TerminationCondition)}

\* the integer codes of the enumeration
KnownCodes == 0 .. (Len(TerminationCondition) - 1)

\* C12: the translation maps the known status strings one-to-one onto the
\* codes 0 .. n-1 (distinct strings have distinct codes, every code is the
\* code of a string); a known string is translated to its code, and the
\* code, taken from the integer array, back to the same string; a known
\* code is translated to its string and the string back to the same code; a
\* string or an integer outside the known set raises ValueError and yields
\* no value.
C12_TranslationBijection ==
    /\ \A s, t \in KnownStatuses :
          s # t => str_to_int_mapping[s] # str_to_int_mapping[t]
    /\ {str_to_int_mapping[s] : s \in KnownStatuses} = KnownCodes
    /\ \A s \in KnownStatuses : int_to_str_mapping[str_to_int_mapping[s]] = s
    /\ LET x == termination_condition
       IN  /\ (x.type = "str" /\ Len(translated) >= 1) =>
                 IF x.val \in KnownStatuses
                 THEN /\ translated[1].type = "int"
                      /\ translated[1].val \in KnownCodes
                      /\ Len(translated) = 2 =>
                            translated[2].type = "str" /\ translated[2].val = x.val
                 ELSE translated = <<ValueError>>
           /\ (x.type = "np.integer" /\ Len(translated) >= 1) =>
                 IF x.val \in KnownCodes
                 THEN /\ translated[1].type = "str"
                      /\ translated[1].val \in KnownStatuses
                      /\ Len(translated) = 2 =>
                            translated[2].type = "int" /\ translated[2].val = x.val
                 ELSE translated = <<ValueError>>

\* C12 witness: "infeasible" was translated to 12 and 12 back to "infeasible"
C12_Witness ==
    /\ termination_condition.type = "str"
    /\ Len(translated) = 2
    /\ translated[1].type = "int" /\ translated[1].val = 12
    /\ translated[2].type = "str" /\ translated[2].val = "infeasible"

\* C12 witness of the error: the code 23 raised
C12_WitnessUnknown ==
    /\ termination_condition.type = "np.integer"
    /\ termination_condition.val = Len(TerminationCondition)
    /\ translated = <<ValueError>>

\* C13: what _interp_nan_values returns has the rows and columns of its
\* argument; every row whose first output is finite is the same row of the
\* argument in every column, so that only rows whose first output is not
\* finite differ; and a second call on the returned matrix leaves the rows
\* that were valid in the first argument, and the rows valid in its own
\* argument, as they are.
C13_ValidRowsUntouched ==
    \A n \in 2 .. Len(global_results_clean) :
        LET arg == global_results_clean[n - 1]
            ret == global_results_clean[n]
        IN  /\ Len(ret) = Len(arg)
            /\ \A i \in 1 .. Len(arg) :
                  /\ Len(ret[i]) = Len(arg[i])
                  /\ IsFinite(arg[i][1]) => ret[i] = arg[i]
                  /\ ret[i] # arg[i] => ~IsFinite(arg[i][1])
                  /\ IsFinite(global_results_clean[1][i][1]) =>
                        ret[i] = global_results_clean[1][i]

\* C13 witness: of three rows the second had no output and was filled from
\* its valid neighbours, which are unchanged; the second call returned the
\* same matrix
C13_Witness ==
    /\ Len(global_results_clean) = 3
    /\ Len(global_results_clean[1]) = 3
    /\ IsFinite(global_results_clean[1][1][1])
    /\ ~IsFinite(global_results_clean[1][2][1])
    /\ IsFinite(global_results_clean[1][3][1])
    /\ IsFinite(global_results_clean[2][2][1])
    /\ global_results_clean[2][1] = global_results_clean[1][1]
    /\ global_results_clean[2][3] = global_results_clean[1][3]
    /\ global_results_clean[3] = global_results_clean[2]

\* the leaves of a skeleton, as <<top-level key, leaf name>>
LeavesOf(output_dict) ==
    {<<"sweep_params", name>> : name \in DOMAIN output_dict.sweep_params}
    \cup {<<"outputs", name>> : name \in DOMAIN output_dict.outputs}

\* C14 as claimed: the skeleton that is read back is the skeleton that was
\* written, in every entry of every leaf and in the status list.
C14_RoundTripIdentical ==
    Len(h5_output_dict) = 2 => h5_output_dict[2] = h5_output_dict[1]

\* C14 amended: the skeleton that is read back has the top-level keys, the
\* leaf names and, per leaf, the entry names of the skeleton that was
\* written, equal value arrays, unit strings and status strings, and equal
\* bounds where the bound is a number; a bound that is None is read back as
\* the smallest (lower bound) or largest (upper bound) double.
C14_RoundTripUpToBounds ==
    Len(h5_output_dict) = 2 =>
        LET written == h5_output_dict[1]
            read    == h5_output_dict[2]
        IN  /\ DOMAIN read = DOMAIN written
            /\ LeavesOf(read) = LeavesOf(written)
            /\ read.solve_status = written.solve_status
            /\ \A l \in LeavesOf(written) :
                  LET w == written[l[1]][l[2]]
                      r == read[l[1]][l[2]]
                  IN  /\ DOMAIN r = DOMAIN w
                      /\ r["value"] = w["value"]
                      /\ "units" \in DOMAIN w => r["units"] = w["units"]
                      /\ "lower bound" \in DOMAIN w =>
                            r["lower bound"] = IF w["lower bound"].none
                                               THEN Bound(finfo_d_min)
                                               ELSE w["lower bound"]
                      /\ "upper bound" \in DOMAIN w =>
                            r["upper bound"] = IF w["upper bound"].none
                                               THEN Bound(finfo_d_max)
                                               ELSE w["upper bound"]

\* C14 witness: a skeleton of three cases, one of them failed, with a leaf
\* whose bounds are None, was written and read back
C14_Witness ==
    /\ Len(h5_output_dict) = 2
    /\ Len(h5_output_dict[1].solve_status) = 3
    /\ h5_output_dict[1].solve_status[2] = "infeasible"
    /\ "fs.z" \in DOMAIN h5_output_dict[1].outputs
    /\ h5_output_dict[1].outputs["fs.z"]["lower bound"].none
    /\ ~h5_output_dict[2].outputs["fs.z"]["lower bound"].none
    /\ h5_output_dict[2].outputs["fs.z"]["units"] = "kg"

\* the names of the leaves under 'sweep_params'
SweptNames == {ParamNames[p] : p \in 1 .. Len(sweep_params)}

\* the value applied to the sweep parameter of the given name in case i of
\* rank r
Applied(r, i, name) ==
    local_values[r][i][CHOOSE p \in 1 .. Len(sweep_params) : ParamNames[p] = name]

\* C15 as claimed: in the local skeleton every finished case has the applied
\* value of each sweep parameter at its index, whatever its status, and a
\* case whose status is not "optimal" has NaN at its index in every leaf
\* under 'outputs', except that a leaf of a sweep parameter holds the
\* applied value.
C15_FailedCasesHoldNaN ==
    \A r \in Ranks : \A i \in Finished(r) :
        /\ \A name \in DOMAIN local_output_dict[r].sweep_params :
              local_output_dict[r].sweep_params[name]["value"][i] = Applied(r, i, name)
        /\ local_solve_status_list[r][i] # "optimal" =>
              \A name \in DOMAIN local_output_dict[r].outputs :
                  local_output_dict[r].outputs[name]["value"][i]
                      = IF name \in SweptNames THEN Applied(r, i, name) ELSE np_nan

\* the kinds of file that rank 0 has written
WrittenKinds == {w.kind : w \in {v \in files : v.rank = 0}}

\* C16 as claimed: the table and the hierarchical artifact are written
\* independently of each other: when rank 0 has returned, the table exists
\* exactly when csv_results_file was given, and the h5 file named by
\* results_fname, which has no switch of its own, exists whether or not the
\* table was requested.
C16_ArtifactsIndependent ==
    pc[0] = "done" =>
        /\ "csv" \in WrittenKinds <=> csv_results_file.given
        /\ "h5" \in WrittenKinds

\* the rank that owns case i of the global combination array
OwningRank(i) ==
    CHOOSE q \in Ranks : RowsBelow(q) < i /\ i <= RowsBelow(q) + Len(local_values[q])

\* the skeleton that rank q handed to the second aggregation round
SentDict(q) == IF q = 0 THEN local_output_dict[0] ELSE gatherv_output[q].data

\* C17 as claimed: with more than one worker, once _create_global_output has
\* returned on rank 0, every leaf array of the global skeleton has one entry
\* per case of the whole sweep, entry i being the value that the owning
\* worker wrote for case i, and the global status list has one status per
\* case, that of the owning worker.
C17_GlobalSkeletonPerCase ==
    (num_procs > 1 /\ OutputAggregated(0)) =>
        LET g == global_output_dict[0]
            n == Len(global_values[0])
            own(i) == SentDict(OwningRank(i))
            loc(i) == i - RowsBelow(OwningRank(i))
        IN  /\ \A key \in {"sweep_params", "outputs"} :
                  \A name \in DOMAIN g[key] :
                      /\ Len(g[key][name]["value"]) = n
                      /\ \A i \in 1 .. n :
                            g[key][name]["value"][i] = own(i)[key][name]["value"][loc(i)]
            /\ Len(g.solve_status) = n
            /\ \A i \in 1 .. n : g.solve_status[i] = own(i).solve_status[loc(i)]

\* _create_local_output_skeleton has returned on rank r
SkeletonCreated(r) == DOMAIN local_output_dict[r].outputs # {}

\* C18 as claimed: from the creation of the local skeleton on, through every
\* per-case update, the leaf of every component that has bounds holds the
\* component's lower bound under 'lower bound' and its upper bound under
\* 'upper bound', and the leaf of every component that has units holds the
\* unit's name, or "non-dimensional" when the component has no unit.
C18_BoundsAndUnitsRecorded ==
    \A r \in Ranks : SkeletonCreated(r) =>
        \A key \in {"sweep_params", "outputs"} :
            \A name \in DOMAIN local_output_dict[r][key] :
                LET component == ComponentNamed(model, name)
                    leaf      == local_output_dict[r][key][name]
                IN  /\ (component.has_lb /\ component.has_ub) =>
                          /\ leaf["lower bound"] = component.lb
                          /\ leaf["upper bound"] = component.ub
                    /\ component.has_units =>
                          leaf["units"] = IF component.units = None
                                          THEN "non-dimensional"
                                          ELSE component.units

\* the number of rows of the local result matrix of rank r that hold the
\* sentinel
SentinelRows(r) ==
    Cardinality({i \in 1 .. Len(local_results[r]) : local_results[r][i] = NaNRow})

\* C19 as claimed: when the loop has returned on a rank, for each of its
\* cases the recorded status is that of the last evaluate call, the row of
\* the result matrix holds extracted outputs exactly when that status is
\* "optimal", exactly then the output leaves of the skeleton that are not
\* sweep parameters hold values and not NaN, and fail_counter is the
\* number of sentinel rows.
C19_OutcomeRecordsAgree ==
    \A r \in Ranks : LoopReturned(r) =>
        /\ \A i \in 1 .. Len(local_values[r]) :
              LET status == local_solve_status_list[r][i]
                  leaves == local_output_dict[r].outputs
              IN  /\ status = attempts[r][i][Len(attempts[r][i])].termination_condition
                  /\ local_results[r][i] # NaNRow <=> status = "optimal"
                  /\ \A name \in (DOMAIN leaves) \ SweptNames :
                        IsFinite(leaves[name]["value"][i]) <=> status = "optimal"
        /\ fail_counter[r] = SentinelRows(r)

\* s is an initial part of t
IsPrefix(s, t) == Len(s) <= Len(t) /\ SubSeq(t, 1, Len(s)) = s

\* the collective operations of one run of parameter_sweep with more than
\* one process, in order
ExpectedCollectives ==
    IF num_procs = 1 THEN <<>>
    ELSE << <<"Bcast", "global_combo_array">>,
            <<"Gather", "send_counts">>,
            <<"Gatherv", "global_results">>,
            <<"Bcast", "global_results">>,
            <<"allgather", "local_num_cases">> >>
         \o [i \in 1 .. Len(LeafOrder(model, sweep_params)) |->
                <<"Gatherv", LeafOrder(model, sweep_params)[i][2]>>]
         \o << <<"Gatherv", "solve_status">>, <<"Barrier", "">> >>

\* no rank has raised out of parameter_sweep
NoRankRaised == \A r \in Ranks : pc[r] \notin {"ValueError", "FileNotFoundError"}

AllReturned == \A r \in Ranks : pc[r] = "done"

\* C20: at every moment the collectives a rank has entered are an initial
\* part of one and the same sequence (combination broadcast; size gather,
\* result gatherv, result broadcast; case-count allgather, one gatherv per
\* skeleton leaf, one for the status codes; barrier), a rank that has
\* returned has entered all of them, and if no rank ever raises then every
\* rank eventually returns from parameter_sweep.
C20_SameCollectivesAndReturn ==
    /\ [](\A r \in Ranks :
            /\ IsPrefix(collectives[r], ExpectedCollectives)
            /\ pc[r] = "done" => collectives[r] = ExpectedCollectives)
    /\ ([]NoRankRaised => <>AllReturned)

\* C20 witness: three ranks and two cases, so that the chunk of rank 2 is
\* empty; rank 0 retried its case and rank 1 did not; every rank has
\* returned after the same twelve collectives
C20_Witness ==
    /\ num_procs = 3
    /\ Len(global_values[0]) = 2
    /\ local_values[2] = <<>>
    /\ AllReturned
    /\ Len(attempts[0][1]) = 2
    /\ Len(attempts[1][1]) = 1
    /\ Len(collectives[2]) = 12
    /\ collectives[0] = collectives[2]
    /\ collectives[1] = collectives[2]

====
